---------------------------- MODULE Spec2Model ----------------------------
(***************************************************************************)
(* Visitor log application (Electron).                                     *)
(*   src/main.js   : main process, quote-aware CSV codec and the external  *)
(*                   CSV file handlers.                                    *)
(*   src/script.js : renderer, sql.js database, local-storage snapshot,    *)
(*                   in-memory list, import, status and notes updates.     *)
(* Text is a sequence of one-character strings, so that the codecs work on *)
(* characters as the JavaScript does.                                      *)
(***************************************************************************)
EXTENDS Integers, Sequences, FiniteSets, TLC

(***************************************************************************)
(* JavaScript values and string primitives                                 *)
(***************************************************************************)

\* The JavaScript value undefined: no text holds this symbol.
Undefined == <<"UNDEFINED">>

Quote == "\""
Comma == ","
Backslash == "\\"

IsSpace(c) == c \in {" ", "\t", "\r", "\n"}

RECURSIVE TrimStart(_)
TrimStart(s) ==
    IF s = <<>> THEN <<>>
    ELSE IF IsSpace(Head(s)) THEN TrimStart(Tail(s)) ELSE s

RECURSIVE TrimEnd(_)
TrimEnd(s) ==
    IF s = <<>> THEN <<>>
    ELSE IF IsSpace(s[Len(s)]) THEN TrimEnd(SubSeq(s, 1, Len(s) - 1)) ELSE s

\* String.prototype.trim
Trim(s) == TrimEnd(TrimStart(s))

\* String.prototype.split(sep) for a one-character separator:
\* "" gives [""], "a," gives ["a", ""]. The pieces of s[lo..hi] are those of
\* its two halves, the last piece of the first joined to the first of the second.
RECURSIVE SplitRange(_, _, _, _)
SplitRange(s, sep, lo, hi) ==
    IF lo > hi THEN <<<<>>>>
    ELSE IF lo = hi THEN (IF s[lo] = sep THEN <<<<>>, <<>>>> ELSE <<<<s[lo]>>>>)
    ELSE LET mid == (lo + hi) \div 2
             a == SplitRange(s, sep, lo, mid)
             b == SplitRange(s, sep, mid + 1, hi)
         IN SubSeq(a, 1, Len(a) - 1) \o <<a[Len(a)] \o b[1]>> \o Tail(b)

Split(s, sep) == SplitRange(s, sep, 1, Len(s))

\* Array.prototype.join(sep)
RECURSIVE Join(_, _)
Join(parts, sep) ==
    IF parts = <<>> THEN <<>>
    ELSE IF Len(parts) = 1 THEN parts[1]
    ELSE parts[1] \o <<sep>> \o Join(Tail(parts), sep)

\* value.replace(/""/g, '"'): left to right, non-overlapping.
RECURSIVE UnescapeQuotes(_)
UnescapeQuotes(s) ==
    IF Len(s) < 2 THEN s
    ELSE IF s[1] = Quote /\ s[2] = Quote
         THEN <<Quote>> \o UnescapeQuotes(SubSeq(s, 3, Len(s)))
         ELSE <<s[1]>> \o UnescapeQuotes(Tail(s))

\* value.replace(/"/g, '""')
RECURSIVE EscapeQuotes(_)
EscapeQuotes(s) ==
    IF s = <<>> THEN <<>>
    ELSE (IF Head(s) = Quote THEN <<Quote, Quote>> ELSE <<Head(s)>>)
         \o EscapeQuotes(Tail(s))

Includes(s, c) == \E i \in 1..Len(s) : s[i] = c

MapSeq(Op(_), s) == [i \in 1..Len(s) |-> Op(s[i])]

RECURSIVE FilterSeq(_, _)
FilterSeq(Keep(_), s) ==
    IF s = <<>> THEN <<>>
    ELSE (IF Keep(Head(s)) THEN <<Head(s)>> ELSE <<>>) \o FilterSeq(Keep, Tail(s))

(***************************************************************************)
(* JavaScript objects: an ordered list of <<key, value>> pairs, one pair   *)
(* per key, in insertion order (the order Object.keys reports).            *)
(***************************************************************************)

ObjKeys(o) == [i \in 1..Len(o) |-> o[i][1]]

ObjHas(o, k) == \E i \in 1..Len(o) : o[i][1] = k

ObjGet(o, k) ==
    IF ObjHas(o, k)
    THEN o[CHOOSE i \in 1..Len(o) : o[i][1] = k][2]
    ELSE Undefined

\* o[k] = v: an existing key keeps its position.
ObjSet(o, k, v) ==
    IF ObjHas(o, k)
    THEN [i \in 1..Len(o) |-> IF o[i][1] = k THEN <<k, v>> ELSE o[i]]
    ELSE Append(o, <<k, v>>)

\* The same mapping, whatever the key order.
ObjEq(a, b) ==
    /\ \A i \in 1..Len(a) : ObjGet(b, a[i][1]) = a[i][2] /\ ObjHas(b, a[i][1])
    /\ \A i \in 1..Len(b) : ObjHas(a, b[i][1])

\* Values at index beyond the array are undefined.
At(values, i) == IF i \in 1..Len(values) THEN values[i] ELSE Undefined

\* JavaScript truthiness of a string, undefined or null.
Truthy(v) == v \notin {<<"UNDEFINED">>, <<"NULL">>, <<>>}

(***************************************************************************)
(* Field names                                                             *)
(***************************************************************************)
K_id == <<"i", "d">>
K_visitorId == <<"v", "i", "s", "i", "t", "o", "r", "I", "d">>
K_firstName == <<"f", "i", "r", "s", "t", "N", "a", "m", "e">>
K_lastName == <<"l", "a", "s", "t", "N", "a", "m", "e">>
K_flatNumber == <<"f", "l", "a", "t", "N", "u", "m", "b", "e", "r">>
K_phoneNumber == <<"p", "h", "o", "n", "e", "N", "u", "m", "b", "e", "r">>
K_dateOfBirth == <<"d", "a", "t", "e", "O", "f", "B", "i", "r", "t", "h">>
K_scannedIdPicUrl == <<"s", "c", "a", "n", "n", "e", "d", "I", "d", "P", "i", "c", "U", "r", "l">>
K_isBanned == <<"i", "s", "B", "a", "n", "n", "e", "d">>
K_notes == <<"n", "o", "t", "e", "s">>
K_generalNotes == <<"g", "e", "n", "e", "r", "a", "l", "N", "o", "t", "e", "s">>

(***************************************************************************)
(* main.js: the quote-aware CSV codec                                      *)
(***************************************************************************)

\* csvText.split(/\r?\n/): a carriage return right before a line feed belongs
\* to the separator.
SplitLines(text) ==
    LET parts == Split(text, "\n")
        Strip(i) ==
            IF i < Len(parts) /\ parts[i] # <<>> /\ parts[i][Len(parts[i])] = "\r"
            THEN SubSeq(parts[i], 1, Len(parts[i]) - 1)
            ELSE parts[i]
    IN [i \in 1..Len(parts) |-> Strip(i)]

NonBlank(line) == Trim(line) # <<>>

\* if (value.startsWith('"') && value.endsWith('"'))
\*     value = value.substring(1, value.length - 1).replace(/""/g, '"');
\* substring(1, 0) on the one-character value swaps its arguments.
Unquote(value) ==
    IF value # <<>> /\ Head(value) = Quote /\ value[Len(value)] = Quote
    THEN IF Len(value) = 1 THEN value
         ELSE UnescapeQuotes(SubSeq(value, 2, Len(value) - 1))
    ELSE value

\* The character scan of one data line (the for loop over j, then the last value).
RECURSIVE ScanLine(_, _, _, _, _)
ScanLine(line, j, inQuote, start, values) ==
    IF j > Len(line)
    THEN Append(values, Unquote(Trim(SubSeq(line, start, Len(line)))))
    ELSE IF line[j] = Quote /\ (j = 1 \/ line[j - 1] # Backslash)
    THEN ScanLine(line, j + 1, ~inQuote, start, values)
    ELSE IF line[j] = Comma /\ ~inQuote
    THEN ScanLine(line, j + 1, inQuote, j + 1,
                  Append(values, Unquote(Trim(SubSeq(line, start, j - 1)))))
    ELSE ScanLine(line, j + 1, inQuote, start, values)

\* headers.forEach: the row object and the hasId flag, as <<row, hasId>>.
RECURSIVE BuildRow(_, _, _, _, _)
BuildRow(headers, values, index, row, hasId) ==
    IF index > Len(headers) THEN <<row, hasId>>
    ELSE LET key == IF headers[index] = K_visitorId THEN K_id ELSE headers[index]
             val == IF Truthy(At(values, index)) THEN Trim(values[index]) ELSE <<>>
         IN BuildRow(headers, values, index + 1, ObjSet(row, key, val),
                     hasId \/ (key = K_id /\ val # <<>>))

RECURSIVE ParseRows(_, _, _)
ParseRows(headers, lines, i) ==
    IF i > Len(lines) THEN <<>>
    ELSE LET built == BuildRow(headers, ScanLine(lines[i], 1, FALSE, 1, <<>>),
                               1, <<>>, FALSE)
         IN (IF built[2] THEN <<built[1]>> ELSE <<>>)
            \o ParseRows(headers, lines, i + 1)

parseCsvMain(csvText) ==
    LET lines == FilterSeq(NonBlank, SplitLines(csvText))
    IN IF lines = <<>> THEN <<>>
       ELSE ParseRows(MapSeq(Trim, Split(lines[1], Comma)), lines, 2)

\* One cell of stringifyCsv.
FormatValue(value) ==
    IF value = Undefined THEN <<>>
    ELSE IF Includes(value, Comma) \/ Includes(value, Quote)
    THEN <<Quote>> \o EscapeQuotes(value) \o <<Quote>>
    ELSE value

stringifyCsv(visitors) ==
    IF visitors = <<>> THEN <<>>
    ELSE LET headers == ObjKeys(visitors[1])
             Row(visitor) ==
                 Join([h \in 1..Len(headers) |-> FormatValue(ObjGet(visitor, headers[h]))],
                      Comma)
         IN Join(<<Join(headers, Comma)>> \o MapSeq(Row, visitors), "\n")

(***************************************************************************)
(* script.js: the renderer's own CSV parser, used by handleImport          *)
(***************************************************************************)

\* headers.forEach((header, index) => { visitor[header] = values[index]; })
RECURSIVE AssignCells(_, _, _, _)
AssignCells(headers, values, index, visitor) ==
    IF index > Len(headers) THEN visitor
    ELSE AssignCells(headers, values, index + 1,
                     ObjSet(visitor, headers[index], At(values, index)))

parseCsvScript(csvText) ==
    LET lines == Split(Trim(csvText), "\n")
        headers == MapSeq(Trim, Split(lines[1], Comma))
        Row(line) == AssignCells(headers, MapSeq(Trim, Split(line, Comma)), 1, <<>>)
    IN MapSeq(Row, Tail(lines))

(***************************************************************************)
(* The sql.js database: the rows of table visitors, in rowid order.        *)
(***************************************************************************)

\* A probe that never finds the stored record.
dbSelectByIdFindsNone(table, visitorId) == <<>>

\* SELECT * FROM visitors WHERE id = ?
dbSelectById(table, visitorId) ==
    FilterSeq(LAMBDA r : r.id = visitorId, table)

\* sql.js refuses to bind undefined ("Wrong API use : tried to bind a value of
\* an unknown type"): db.run throws before the statement runs.
BindThrows(params) == \E i \in 1..Len(params) : params[i] = Undefined

\* An import update that also takes generalNotes from the CSV row.
dbUpdateVisitorWithGeneralNotes(table, visitorId, visitor, isBanned) ==
    [i \in 1..Len(table) |->
        IF table[i].id = visitorId
        THEN [table[i] EXCEPT
                 !.firstName = ObjGet(visitor, K_firstName),
                 !.lastName = ObjGet(visitor, K_lastName),
                 !.flatNumber = ObjGet(visitor, K_flatNumber),
                 !.phoneNumber = ObjGet(visitor, K_phoneNumber),
                 !.dateOfBirth = ObjGet(visitor, K_dateOfBirth),
                 !.scannedIdPicUrl = ObjGet(visitor, K_scannedIdPicUrl),
                 !.isBanned = isBanned,
                 !.notes = ObjGet(visitor, K_notes),
                 !.generalNotes = ObjGet(visitor, K_generalNotes)]
        ELSE table[i]]

\* UPDATE visitors SET firstName = ?, ..., notes = ? WHERE id = ?
dbUpdateVisitor(table, visitorId, visitor, isBanned) ==
    [i \in 1..Len(table) |->
        IF table[i].id = visitorId
        THEN [table[i] EXCEPT
                 !.firstName = ObjGet(visitor, K_firstName),
                 !.lastName = ObjGet(visitor, K_lastName),
                 !.flatNumber = ObjGet(visitor, K_flatNumber),
                 !.phoneNumber = ObjGet(visitor, K_phoneNumber),
                 !.dateOfBirth = ObjGet(visitor, K_dateOfBirth),
                 !.scannedIdPicUrl = ObjGet(visitor, K_scannedIdPicUrl),
                 !.isBanned = isBanned,
                 !.notes = ObjGet(visitor, K_notes)]
        ELSE table[i]]

\* INSERT INTO visitors (...) VALUES (?, ..., '')
dbInsertVisitor(table, visitorId, visitor, isBanned) ==
    Append(table,
           [id |-> visitorId,
            firstName |-> ObjGet(visitor, K_firstName),
            lastName |-> ObjGet(visitor, K_lastName),
            flatNumber |-> ObjGet(visitor, K_flatNumber),
            phoneNumber |-> ObjGet(visitor, K_phoneNumber),
            dateOfBirth |-> ObjGet(visitor, K_dateOfBirth),
            scannedIdPicUrl |-> ObjGet(visitor, K_scannedIdPicUrl),
            isBanned |-> isBanned,
            notes |-> ObjGet(visitor, K_notes),
            generalNotes |-> <<>>])

\* A status update that leaves the notes column alone.
dbUpdateStatusKeepsNotes(table, visitorId, isBanned, notes) ==
    [i \in 1..Len(table) |->
        IF table[i].id = visitorId
        THEN [table[i] EXCEPT !.isBanned = isBanned]
        ELSE table[i]]

\* UPDATE visitors SET isBanned = ?, notes = ? WHERE id = ?
dbUpdateStatus(table, visitorId, isBanned, notes) ==
    [i \in 1..Len(table) |->
        IF table[i].id = visitorId
        THEN [table[i] EXCEPT !.isBanned = isBanned, !.notes = notes]
        ELSE table[i]]

\* UPDATE visitors SET generalNotes = ? WHERE id = ?
dbUpdateGeneralNotes(table, visitorId, notes) ==
    [i \in 1..Len(table) |->
        IF table[i].id = visitorId
        THEN [table[i] EXCEPT !.generalNotes = notes]
        ELSE table[i]]

\* id TEXT PRIMARY KEY: an INSERT of an id the table holds fails.
InsertThrows(table, visitorId) == \E i \in 1..Len(table) : table[i].id = visitorId

\* A rollback that undoes nothing.
dbRollbackKeepsCurrent(atBegin, current) == current

\* ROLLBACK: the table is again what it was at BEGIN TRANSACTION.
dbRollback(atBegin, current) == atBegin

\* uuidv4(): the n-th identifier drawn; the draws are distinct, and no text of a
\* file spells one.
uuidv4(n) == <<"u", "-">> \o [i \in 1..n |-> "x"]

\* An id resolution that draws an identifier for every row.
ResolveIdAlwaysDraws(visitor, gen) == [id |-> uuidv4(gen + 1), gen |-> gen + 1]

\* const visitorId = visitor.id || uuidv4(): the id, and the identifiers drawn
\* so far.
ResolveId(visitor, gen) ==
    IF Truthy(ObjGet(visitor, K_id))
    THEN [id |-> ObjGet(visitor, K_id), gen |-> gen]
    ELSE [id |-> uuidv4(gen + 1), gen |-> gen + 1]

\* The parameters of the row's UPDATE or INSERT that come from the CSV row.
RowParams(visitor) ==
    <<ObjGet(visitor, K_firstName), ObjGet(visitor, K_lastName),
      ObjGet(visitor, K_flatNumber), ObjGet(visitor, K_phoneNumber),
      ObjGet(visitor, K_dateOfBirth), ObjGet(visitor, K_scannedIdPicUrl),
      ObjGet(visitor, K_notes)>>

\* Gates that let a row without a lastName, or any row, through.
RowAcceptedFirstNameOnly(visitor) == Truthy(ObjGet(visitor, K_firstName))
RowAcceptedAlways(visitor) == TRUE

\* if (!visitor.firstName || !visitor.lastName) continue;
RowAccepted(visitor) ==
    Truthy(ObjGet(visitor, K_firstName)) /\ Truthy(ObjGet(visitor, K_lastName))

\* visitor.isBanned === 'true' || visitor.isBanned === '1' ? 1 : 0
ParseBanned(visitor) ==
    IF ObjGet(visitor, K_isBanned) \in {<<"t", "r", "u", "e">>, <<"1">>} THEN 1 ELSE 0

\* The for loop of handleImport inside the transaction. faultAt is the row at
\* which db.run fails for a reason of its own (0: no such failure). The result
\* says whether the loop threw, and gives the table, the count and the number
\* of identifiers drawn when it ended.
RECURSIVE ImportLoop(_, _, _, _, _, _)
ImportLoop(rows, i, table, count, gen, faultAt) ==
    IF i > Len(rows)
    THEN [threw |-> FALSE, table |-> table, count |-> count, gen |-> gen]
    ELSE IF ~RowAccepted(rows[i])
    THEN ImportLoop(rows, i + 1, table, count, gen, faultAt)
    ELSE LET visitor == rows[i]
             resolved == ResolveId(visitor, gen)
             visitorId == resolved.id
             isBanned == ParseBanned(visitor)
             existingVisitor == dbSelectById(table, visitorId)
             runThrows == \/ faultAt = i
                          \/ BindThrows(RowParams(visitor))
                          \/ Len(existingVisitor) = 0 /\ InsertThrows(table, visitorId)
         IN IF runThrows
            THEN [threw |-> TRUE, table |-> table, count |-> count,
                  gen |-> resolved.gen]
            ELSE ImportLoop(rows, i + 1,
                            IF Len(existingVisitor) > 0
                            THEN dbUpdateVisitor(table, visitorId, visitor, isBanned)
                            ELSE dbInsertVisitor(table, visitorId, visitor, isBanned),
                            count + 1, resolved.gen, faultAt)

(***************************************************************************)
(* Bounds and the inputs the environment can supply                        *)
(***************************************************************************)

\* Handlers run in one behaviour.
MaxOps == 4
\* Identifiers uuidv4 may draw in one behaviour.
MaxGen == 2
\* Rows at which a statement of the import transaction may fail by itself.
MaxFaultRow == 2

Null == <<"NULL">>

Line(cells) == Join(cells, Comma)
Text(lines) == Join(lines, "\n")

Header10 ==
    Line(<<K_id, K_firstName, K_lastName, K_flatNumber, K_phoneNumber,
           K_dateOfBirth, K_scannedIdPicUrl, K_isBanned, K_notes, K_generalNotes>>)

V1 == <<"v", "1">>
V2 == <<"v", "2">>
V3 == <<"v", "3">>

\* Two well-formed rows.
FileClean ==
    Text(<<Header10,
           Line(<<V1, <<"J", "o">>, <<"D", "o">>, <<"1">>, <<"5">>, <<"d">>, <<"p">>,
                  <<"0">>, <<>>, <<"g">>>>),
           Line(<<V2, <<"A", "l">>, <<"P", "o">>, <<"2">>, <<"6">>, <<"d">>, <<"p">>,
                  <<"t", "r", "u", "e">>, <<"t">>, <<>>>>)>>)

\* A row without lastName, a row without id, and an id given twice.
FileMixed ==
    Text(<<Header10,
           Line(<<V1, <<"A", "n">>, <<" ">>, <<"1">>, <<"5">>, <<"d">>, <<"p">>,
                  <<"0">>, <<>>, <<>>>>),
           Line(<<<<>>, <<"B", "o">>, <<"R", "o">>, <<"3">>, <<"7">>, <<"d">>, <<"p">>,
                  <<"1">>, <<"n">>, <<>>>>),
           Line(<<V2, <<"A", "l">>, <<"P", "o">>, <<"2">>, <<"6">>, <<"d">>, <<"p">>,
                  <<"0">>, <<>>, <<>>>>),
           Line(<<V2, <<"A", "l">>, <<"Q", "u">>, <<"2">>, <<"6">>, <<"d">>, <<"p">>,
                  <<"1">>, <<"x">>, <<>>>>)>>)

\* A complete row followed by a row that stops after lastName.
FileShort ==
    Text(<<Header10,
           Line(<<V3, <<"C", "y">>, <<"M", "o">>, <<"4">>, <<"8">>, <<"d">>, <<"p">>,
                  <<"0">>, <<>>, <<>>>>),
           Line(<<V1, <<"J", "o">>, <<"D", "o">>>>)>>)

\* A double-quoted flatNumber that holds a comma.
FileQuoted ==
    Text(<<Header10,
           Line(<<V1, <<"J", "o">>, <<"D", "o">>, <<Quote, "1", Comma, "A", Quote>>,
                  <<"5">>, <<"d">>, <<"p">>, <<"1">>, <<"n">>, <<"g">>>>)>>)

\* The CSV files the file picker can open, by path.
InitialFiles == <<FileClean, FileMixed, FileShort, FileQuoted>>
Paths == 1..Len(InitialFiles)
NoPath == 0

\* A snapshot left in local storage by an earlier session.
SeedRows ==
    <<[id |-> V1, firstName |-> <<"J", "o">>, lastName |-> <<"D", "o">>,
       flatNumber |-> <<"1">>, phoneNumber |-> <<"5">>, dateOfBirth |-> <<"d">>,
       scannedIdPicUrl |-> <<"p">>, isBanned |-> 1, notes |-> <<"o">>,
       generalNotes |-> <<"k">>]>>

NoItem == [has |-> FALSE, rows |-> <<>>]
InitialStorage == {NoItem, [has |-> TRUE, rows |-> SeedRows]}

\* What the user can type.
BanNotesInputs == {<<>>, <<"b">>}
GeneralNotesInputs == {<<>>, <<"m">>}
PasswordInputs == {<<>>, <<"x">>}

(***************************************************************************)
(* State                                                                   *)
(***************************************************************************)
VARIABLES
    db,                 \* script.js: the rows of the sql.js database
    visitorsList,       \* script.js: the in-memory list
    selectedVisitorId,  \* script.js: the selected id, or Null
    localStorage,       \* the item 'sqliteDb': [has, rows]
    files,              \* the CSV files on disk, by path
    lastUsedFilePath,   \* main.js: the remembered path, or NoPath
    ready,              \* the listeners of initializeDb are registered
    genCount,           \* identifiers drawn by uuidv4 so far
    messages,           \* what the last handler passed to showMessageBox
    uncaught,           \* the last handler ended in an uncaught exception
    last,               \* the last handler run, its inputs and the state before it
    opCount,            \* handlers run so far
    codec,              \* main.js codec alone: a text, its parse, the rewrite, the reparse
    ipcRequests,        \* updateAndSaveCsvFile calls sent to the main process, not yet handled
    ipcReplies,         \* results on their way back to the awaiting handleExport
    lastExport,         \* the last updateAndSaveCsvFile call the main process handled
    searchView          \* what handleSearch last rendered: term, result list, profile

vars == <<db, visitorsList, selectedVisitorId, localStorage, files,
          lastUsedFilePath, ready, genCount, messages, uncaught, last, opCount, codec,
          ipcRequests, ipcReplies, lastExport, searchView>>

\* The export and search state, as a page load and the codec leave it.
ViewVars == <<ipcRequests, ipcReplies, lastExport, searchView>>

NoExport == [done |-> FALSE, ok |-> FALSE, record |-> <<>>, index |-> 0,
             before |-> <<>>, visitors |-> <<>>, after |-> <<>>, back |-> <<>>]

NoSearch == [term |-> <<>>, shown |-> FALSE, results |-> <<>>, profile |-> <<"NULL">>]

CodecIdle == [pc |-> "idle", text |-> <<>>, records |-> <<>>, out |-> <<>>, back |-> <<>>]

Msg(type, text, count) == [type |-> type, text |-> text, count |-> count]

NoOp == [op |-> "none", id |-> Null, notes |-> <<>>, csv |-> <<>>, rows |-> <<>>,
         exportPending |-> FALSE,
         threw |-> FALSE, saveFailed |-> FALSE, fault |-> 0, count |-> 0,
         again |-> FALSE, dbPrior |-> <<>>,
         dbBefore |-> <<>>, storedBefore |-> NoItem, listBefore |-> <<>>]

Init ==
    /\ db = <<>>
    /\ visitorsList = <<>>
    /\ selectedVisitorId = Null
    /\ localStorage \in InitialStorage
    /\ files = InitialFiles
    /\ lastUsedFilePath = NoPath
    /\ ready = FALSE
    /\ genCount = 0
    /\ messages = <<>>
    /\ uncaught = FALSE
    /\ last = NoOp
    /\ opCount = 0
    /\ codec = CodecIdle
    /\ ipcRequests = <<>>
    /\ ipcReplies = <<>>
    /\ lastExport = NoExport
    /\ searchView = NoSearch

(***************************************************************************)
(* script.js handlers                                                      *)
(***************************************************************************)

\* saveDbToLocalStorage: the item holds the export of the database.
saveDbToLocalStorage(table) == [has |-> TRUE, rows |-> table]

\* loadVisitorsFromDb: SELECT * FROM visitors, as objects.
loadVisitorsFromDb(table) == table

\* handleImport past its parse: the transaction, the save and the reload on
\* database `table` with list `list` and storage `stored`; the state it
\* leaves. saveFails: localStorage.setItem throws.
importVisitors(importedVisitors, table, list, stored, gen, faultAt, saveFails) ==
    LET loop == ImportLoop(importedVisitors, 1, table, 0, gen, faultAt)
    IN IF loop.threw
       THEN \* catch: ROLLBACK, then the error message
            [db |-> dbRollback(table, loop.table), list |-> list, stored |-> stored,
             gen |-> loop.gen, count |-> loop.count,
             msgs |-> <<Msg("error", "Failed to import data.", 0)>>,
             threw |-> TRUE, uncaught |-> FALSE]
       ELSE IF saveFails
       THEN \* COMMIT is done; catch: ROLLBACK throws, no transaction is active
            [db |-> loop.table, list |-> list, stored |-> stored,
             gen |-> loop.gen, count |-> loop.count,
             msgs |-> <<>>, threw |-> FALSE, uncaught |-> TRUE]
       ELSE [db |-> loop.table, list |-> loadVisitorsFromDb(loop.table),
             stored |-> saveDbToLocalStorage(loop.table),
             gen |-> loop.gen, count |-> loop.count,
             msgs |-> <<Msg("success", "Successfully imported", loop.count)>>,
             threw |-> FALSE, uncaught |-> FALSE]

\* Identifiers the import draws at most: one per accepted row without id.
DrawsNeeded(importedVisitors) ==
    Len(FilterSeq(LAMBDA v : RowAccepted(v) /\ ~Truthy(ObjGet(v, K_id)),
                  importedVisitors))

\* handleImport(csvData), called by initializeDb on the database `loaded` it
\* has just built: the parse, then the import under each failure the
\* environment can cause.
handleImport(csvData, loaded, list0) ==
    \E importedVisitors \in {parseCsvScript(csvData)} :
       /\ genCount + DrawsNeeded(importedVisitors) <= MaxGen
       /\ \E faultAt \in {0} \cup {i \in 1..MaxFaultRow :
                                      /\ i <= Len(importedVisitors)
                                      /\ RowAccepted(importedVisitors[i])},
                saveFails \in BOOLEAN :
             \E out \in {importVisitors(importedVisitors, loaded, list0, localStorage,
                                        genCount, faultAt, saveFails)} :
                /\ db' = out.db
                /\ visitorsList' = out.list
                /\ localStorage' = out.stored
                /\ genCount' = out.gen
                /\ messages' = out.msgs
                /\ uncaught' = out.uncaught
                /\ last' = [NoOp EXCEPT !.op = "import", !.csv = csvData,
                               !.rows = importedVisitors,
                               !.exportPending = ipcRequests # <<>>,
                               !.threw = out.threw, !.saveFailed = out.uncaught,
                               !.fault = faultAt, !.count = out.count,
                               !.again = /\ last.op = "import" /\ ~last.threw
                                         /\ last.csv = csvData /\ ~out.threw,
                               !.dbPrior = db,
                               !.dbBefore = loaded, !.storedBefore = localStorage,
                               !.listBefore = list0]

\* window.onload: the database is rebuilt from local storage, the list is
\* loaded, the file picker runs (path = NoPath: the user cancels), the file is
\* imported and the listeners are registered. The page that awaited the
\* replies of the main process is gone.
initializeDb(path) ==
    LET loaded == IF localStorage.has THEN localStorage.rows ELSE <<>>
        list0 == loadVisitorsFromDb(loaded)
        csvData == IF path = NoPath THEN <<>> ELSE files[path]
    IN /\ opCount < MaxOps
       /\ opCount' = opCount + 1
       /\ selectedVisitorId' = Null
       /\ ready' = TRUE
       /\ UNCHANGED <<files, codec, lastExport>>
       /\ ipcRequests' = [i \in 1..Len(ipcRequests) |->
                             [ipcRequests[i] EXCEPT !.live = FALSE]]
       /\ ipcReplies' = <<>>
       /\ searchView' = NoSearch
       /\ lastUsedFilePath' = IF path = NoPath THEN lastUsedFilePath ELSE path
       /\ IF csvData # <<>>
          THEN handleImport(csvData, loaded, list0)
          ELSE /\ db' = loaded
               /\ visitorsList' = list0
               /\ UNCHANGED <<localStorage, genCount>>
               /\ messages' = <<Msg("error", "CSV import canceled or failed.", 0)>>
               /\ uncaught' = FALSE
               /\ last' = [NoOp EXCEPT !.op = "load", !.dbPrior = db, !.dbBefore = loaded,
                              !.exportPending = ipcRequests # <<>>,
                              !.storedBefore = localStorage, !.listBefore = list0]

\* const UNBAN_PASSWORD = "";
UNBAN_PASSWORD == <<>>

\* updateVisitorStatus(visitorId, newStatus) past its guard: the state it leaves.
updateVisitorStatus(visitorId, newIsBanned, newNotes, table, list, stored, saveFails) ==
    LET isBanned == IF newIsBanned THEN 1 ELSE 0
        notes == IF Truthy(newNotes) THEN newNotes ELSE <<>>
        updated == dbUpdateStatus(table, visitorId, isBanned, notes)
    IN IF saveFails
       THEN \* the UPDATE is done; saveDbToLocalStorage throws into the catch
            [db |-> updated, list |-> list, stored |-> stored,
             msgs |-> <<Msg("error", "Failed to update visitor status.", 0)>>]
       ELSE [db |-> updated, list |-> loadVisitorsFromDb(updated),
             stored |-> saveDbToLocalStorage(updated),
             msgs |-> <<Msg("success", "Visitor status updated successfully!", 0)>>]

\* updateGeneralNotes(visitorId, notes) past its guard: the state it leaves.
updateGeneralNotes(visitorId, notes, table, list, stored, saveFails) ==
    LET updated == dbUpdateGeneralNotes(table, visitorId, notes)
    IN IF saveFails
       THEN [db |-> updated, list |-> list, stored |-> stored,
             msgs |-> <<Msg("error", "Failed to save notes.", 0)>>]
       ELSE [db |-> updated, list |-> loadVisitorsFromDb(updated),
             stored |-> saveDbToLocalStorage(updated),
             msgs |-> <<Msg("success", "Notes saved successfully!", 0)>>]

Before(op, notes, saveFails) ==
    [NoOp EXCEPT !.op = op, !.id = selectedVisitorId, !.notes = notes,
                 !.exportPending = ipcRequests # <<>>,
                 !.saveFailed = saveFails, !.dbBefore = db, !.dbPrior = db,
                 !.storedBefore = localStorage, !.listBefore = visitorsList]

Frame ==
    UNCHANGED <<selectedVisitorId, files, lastUsedFilePath, ready, genCount, codec,
                ipcRequests, ipcReplies, lastExport, searchView>>

\* li.onclick of a rendered search result: the visitor becomes the selection.
resultClick(i) ==
    /\ ready /\ opCount < MaxOps
    /\ i \in 1..Len(visitorsList)
    /\ selectedVisitorId' = visitorsList[i].id
    /\ messages' = <<>>
    /\ uncaught' = FALSE
    /\ last' = Before("select", <<>>, FALSE)
    /\ opCount' = opCount + 1
    /\ UNCHANGED <<db, visitorsList, localStorage, files, lastUsedFilePath, ready,
                   genCount, codec, ipcRequests, ipcReplies, lastExport>>
    /\ searchView' = [searchView EXCEPT !.shown = FALSE, !.profile = visitorsList[i].id]

\* The ban modal's confirm button, with the notes typed in the modal.
handleBanConfirm(notes, saveFails) ==
    /\ ready /\ opCount < MaxOps
    /\ opCount' = opCount + 1
    /\ uncaught' = FALSE
    /\ Frame
    /\ IF ~Truthy(selectedVisitorId)
       THEN /\ UNCHANGED <<db, visitorsList, localStorage>>
            /\ messages' = <<>>
            /\ last' = Before("ban", notes, FALSE)
       ELSE LET out == updateVisitorStatus(selectedVisitorId, TRUE, notes, db,
                                           visitorsList, localStorage, saveFails)
            IN /\ db' = out.db
               /\ visitorsList' = out.list
               /\ localStorage' = out.stored
               /\ messages' = out.msgs
               /\ last' = Before("ban", notes, saveFails)

\* The unban modal's confirm button, with the password typed in the modal.
handleUnbanConfirm(enteredPassword, saveFails) ==
    /\ ready /\ opCount < MaxOps
    /\ opCount' = opCount + 1
    /\ uncaught' = FALSE
    /\ Frame
    /\ IF enteredPassword # UNBAN_PASSWORD
       THEN /\ UNCHANGED <<db, visitorsList, localStorage>>
            /\ messages' = <<Msg("error", "Incorrect password.", 0)>>
            /\ last' = Before("unban-refused", <<>>, FALSE)
       ELSE IF ~Truthy(selectedVisitorId)
       THEN /\ UNCHANGED <<db, visitorsList, localStorage>>
            /\ messages' = <<>>
            /\ last' = Before("unban", <<>>, FALSE)
       ELSE LET out == updateVisitorStatus(selectedVisitorId, FALSE, <<>>, db,
                                           visitorsList, localStorage, saveFails)
            IN /\ db' = out.db
               /\ visitorsList' = out.list
               /\ localStorage' = out.stored
               /\ messages' = Append(out.msgs,
                                     Msg("success", "Visitor has been unbanned.", 0))
               /\ last' = Before("unban", <<>>, saveFails)

\* The click listener of saveGeneralNotesButton.
saveGeneralNotesClick(notes, saveFails) ==
    /\ ready /\ opCount < MaxOps
    /\ opCount' = opCount + 1
    /\ uncaught' = FALSE
    /\ Frame
    /\ IF ~Truthy(selectedVisitorId)
       THEN /\ UNCHANGED <<db, visitorsList, localStorage>>
            /\ messages' = <<Msg("error", "Please search for a visitor first.", 0)>>
            /\ last' = Before("notes", notes, FALSE)
       ELSE LET out == updateGeneralNotes(selectedVisitorId, notes, db,
                                          visitorsList, localStorage, saveFails)
            IN /\ db' = out.db
               /\ visitorsList' = out.list
               /\ localStorage' = out.stored
               /\ messages' = out.msgs
               /\ last' = Before("notes", notes, saveFails)

(***************************************************************************)
(* Search: handleSearch on the in-memory list.                             *)
(***************************************************************************)

UpperCase == <<"A", "B", "C", "D", "E", "F", "G", "H", "I", "J", "K", "L", "M", "N", "O", "P", "Q", "R", "S", "T", "U", "V", "W", "X", "Y", "Z">>
LowerCase == <<"a", "b", "c", "d", "e", "f", "g", "h", "i", "j", "k", "l", "m", "n", "o", "p", "q", "r", "s", "t", "u", "v", "w", "x", "y", "z">>

\* String.prototype.toLowerCase on the letters A to Z.
toLowerCase(s) ==
    [i \in 1..Len(s) |->
        IF \E k \in 1..26 : UpperCase[k] = s[i]
        THEN LowerCase[CHOOSE k \in 1..26 : UpperCase[k] = s[i]]
        ELSE s[i]]

\* s.includes(t) for a text t.
IncludesText(s, t) ==
    \E k \in 1..(Len(s) - Len(t) + 1) : SubSeq(s, k, k + Len(t) - 1) = t

\* searchTerm.split(/\s+/).filter(term => term.length > 0): word is the term
\* being read.
RECURSIVE SplitTerms(_, _, _)
SplitTerms(s, i, word) ==
    IF i > Len(s) THEN (IF word = <<>> THEN <<>> ELSE <<word>>)
    ELSE IF IsSpace(s[i])
    THEN (IF word = <<>> THEN <<>> ELSE <<word>>) \o SplitTerms(s, i + 1, <<>>)
    ELSE SplitTerms(s, i + 1, Append(word, s[i]))

\* A filter that keeps a visitor when some term is in a name.
TermsMatchSome(searchTerms, visitor) ==
    \E k \in 1..Len(searchTerms) :
        \/ IncludesText(toLowerCase(visitor.firstName), searchTerms[k])
        \/ IncludesText(toLowerCase(visitor.lastName), searchTerms[k])

\* searchTerms.every(term => (visitor.firstName && firstName includes term) ||
\*                           (visitor.lastName && lastName includes term))
TermsMatch(searchTerms, visitor) ==
    \A k \in 1..Len(searchTerms) :
        \/ (Truthy(visitor.firstName)
            /\ IncludesText(toLowerCase(visitor.firstName), searchTerms[k]))
        \/ (Truthy(visitor.lastName)
            /\ IncludesText(toLowerCase(visitor.lastName), searchTerms[k]))

\* `${v.firstName.toLowerCase()} ${v.lastName.toLowerCase()}` === searchTerm
IsExactMatch(visitor, searchTerm) ==
    toLowerCase(visitor.firstName) \o <<" ">> \o toLowerCase(visitor.lastName) = searchTerm

\* What the user can type in the search box.
SearchInputs ==
    {<<>>, <<"J", "o", " ", "D", "o", " ">>, <<"b", "o", " ", "r", "o">>, <<"o">>,
     <<"a", " ", " ", "O">>}

\* The input listener of the search box.
handleSearch(value) ==
    /\ ready /\ opCount < MaxOps
    /\ opCount' = opCount + 1
    /\ uncaught' = FALSE
    /\ messages' = <<>>
    /\ last' = Before("search", value, FALSE)
    /\ UNCHANGED <<db, visitorsList, localStorage, files, lastUsedFilePath, ready,
                   genCount, codec, ipcRequests, ipcReplies, lastExport>>
    /\ \E searchTerm \in {Trim(toLowerCase(value))} :
          IF searchTerm = <<>>
          THEN /\ selectedVisitorId' = Null
               /\ searchView' = [term |-> <<>>, shown |-> FALSE, results |-> <<>>,
                                 profile |-> Null]
          ELSE \E foundVisitors \in
                     {FilterSeq(LAMBDA v : TermsMatch(SplitTerms(searchTerm, 1, <<>>), v),
                                visitorsList)} :
               LET exact == {i \in 1..Len(foundVisitors) :
                                IsExactMatch(foundVisitors[i], searchTerm)}
               IN IF exact # {}
                  THEN LET exactMatch ==
                               foundVisitors[CHOOSE i \in exact : \A j \in exact : i <= j]
                       IN /\ selectedVisitorId' = exactMatch.id
                          /\ searchView' = [term |-> searchTerm, shown |-> FALSE,
                                            results |-> <<>>, profile |-> exactMatch.id]
                  ELSE /\ UNCHANGED selectedVisitorId
                       /\ searchView' =
                             [term |-> searchTerm, shown |-> TRUE,
                              results |-> [i \in 1..Len(foundVisitors) |->
                                              foundVisitors[i].id],
                              profile |-> Null]

(***************************************************************************)
(* Export: handleExport in the renderer, dialog:updateAndSaveCsvFile in    *)
(* the main process, and the continuation of handleExport on the reply.    *)
(***************************************************************************)

\* Calls to the main process that may be waiting at once.
MaxPending == 1

\* updatedVisitorData: the ten fields in the order of the object literal,
\* generalNotes taken from the input element. isBanned is a number; it is
\* carried as the text value.toString() writes for it.
updatedVisitorData(visitorToExport, generalNotes) ==
    <<<<K_id, visitorToExport.id>>,
      <<K_firstName, visitorToExport.firstName>>,
      <<K_lastName, visitorToExport.lastName>>,
      <<K_flatNumber, visitorToExport.flatNumber>>,
      <<K_phoneNumber, visitorToExport.phoneNumber>>,
      <<K_dateOfBirth, visitorToExport.dateOfBirth>>,
      <<K_scannedIdPicUrl, visitorToExport.scannedIdPicUrl>>,
      <<K_isBanned, IF visitorToExport.isBanned = 1 THEN <<"1">> ELSE <<"0">>>>,
      <<K_notes, visitorToExport.notes>>,
      <<K_generalNotes, generalNotes>>>>

\* An upsert that never looks for the row.
findIndexNever(visitors, updatedVisitor) == 0

\* visitors.findIndex(v => v.id && updatedVisitor.id &&
\*                         v.id.trim() === updatedVisitor.id.trim()); 0 for -1.
findIndex(visitors, updatedVisitor) ==
    LET hits == {i \in 1..Len(visitors) :
                    /\ Truthy(ObjGet(visitors[i], K_id))
                    /\ Truthy(ObjGet(updatedVisitor, K_id))
                    /\ Trim(ObjGet(visitors[i], K_id)) = Trim(ObjGet(updatedVisitor, K_id))}
    IN IF hits = {} THEN 0 ELSE CHOOSE i \in hits : \A j \in hits : i <= j

\* visitors[visitorIndex] = updatedVisitor, or visitors.push(updatedVisitor).
upsertVisitor(visitors, updatedVisitor, visitorIndex) ==
    IF visitorIndex # 0
    THEN [visitors EXCEPT ![visitorIndex] = updatedVisitor]
    ELSE Append(visitors, updatedVisitor)

\* The click listener of export-btn, up to its await.
handleExport(generalNotes) ==
    /\ ready /\ opCount < MaxOps
    /\ opCount' = opCount + 1
    /\ uncaught' = FALSE
    /\ last' = Before("export", generalNotes, FALSE)
    /\ UNCHANGED <<db, visitorsList, localStorage, selectedVisitorId, files,
                   lastUsedFilePath, ready, genCount, codec, ipcReplies, lastExport,
                   searchView>>
    /\ IF ~Truthy(selectedVisitorId)
       THEN /\ messages' = <<Msg("error",
                                 "Please search for and select a visitor to export.", 0)>>
            /\ UNCHANGED ipcRequests
       ELSE IF \A i \in 1..Len(visitorsList) : visitorsList[i].id # selectedVisitorId
       THEN /\ messages' = <<Msg("error", "Selected visitor not found.", 0)>>
            /\ UNCHANGED ipcRequests
       ELSE /\ Len(ipcRequests) < MaxPending
            /\ messages' = <<>>
            /\ ipcRequests' =
                  Append(ipcRequests,
                         [live |-> TRUE,
                          record |-> updatedVisitorData(
                              visitorsList[CHOOSE i \in 1..Len(visitorsList) :
                                  /\ visitorsList[i].id = selectedVisitorId
                                  /\ \A j \in 1..(i - 1) :
                                        visitorsList[j].id # selectedVisitorId],
                              generalNotes)])

\* ipcMain.handle('dialog:updateAndSaveCsvFile'): the main process takes the
\* oldest call. ioFails: readFileSync or writeFileSync throws.
updateAndSaveCsvFile(ioFails) ==
    /\ ipcRequests # <<>>
    /\ ipcRequests' = Tail(ipcRequests)
    /\ UNCHANGED <<db, visitorsList, localStorage, selectedVisitorId, lastUsedFilePath,
                   ready, genCount, messages, uncaught, last, opCount, codec, searchView>>
    /\ \E updatedVisitor \in {Head(ipcRequests).record}, live \in {Head(ipcRequests).live} :
          IF lastUsedFilePath = NoPath \/ ioFails
          THEN /\ UNCHANGED files
               /\ lastExport' = [NoExport EXCEPT !.done = TRUE, !.record = updatedVisitor]
               /\ ipcReplies' = IF live THEN Append(ipcReplies, [success |-> FALSE])
                                ELSE ipcReplies
          ELSE \E visitors \in {parseCsvMain(files[lastUsedFilePath])} :
               \E visitorIndex \in {findIndex(visitors, updatedVisitor)} :
               \E newCsvContent \in
                      {stringifyCsv(upsertVisitor(visitors, updatedVisitor, visitorIndex))} :
                  /\ files' = [files EXCEPT ![lastUsedFilePath] = newCsvContent]
                  /\ lastExport' = [done |-> TRUE, ok |-> TRUE, record |-> updatedVisitor,
                                    index |-> visitorIndex,
                                    before |-> files[lastUsedFilePath],
                                    visitors |-> visitors,
                                    after |-> newCsvContent,
                                    back |-> parseCsvMain(newCsvContent)]
                  /\ ipcReplies' = IF live THEN Append(ipcReplies, [success |-> TRUE])
                                   ELSE ipcReplies

\* handleExport after its await: the message for the result.
exportResult ==
    /\ ipcReplies # <<>>
    /\ ipcReplies' = Tail(ipcReplies)
    /\ messages' = IF Head(ipcReplies).success
                   THEN <<Msg("success", "Visitor data updated in CSV successfully!", 0)>>
                   ELSE <<Msg("error", "Export failed", 0)>>
    /\ uncaught' = FALSE
    /\ last' = Before("exportResult", <<>>, FALSE)
    /\ UNCHANGED <<db, visitorsList, localStorage, selectedVisitorId, files,
                   lastUsedFilePath, ready, genCount, opCount, codec, ipcRequests,
                   lastExport, searchView>>

Next ==
    \/ \E path \in Paths \cup {NoPath} : initializeDb(path)
    \/ \E i \in 1..Len(visitorsList) : resultClick(i)
    \/ \E notes \in BanNotesInputs, saveFails \in BOOLEAN :
           handleBanConfirm(notes, saveFails)
    \/ \E enteredPassword \in PasswordInputs, saveFails \in BOOLEAN :
           handleUnbanConfirm(enteredPassword, saveFails)
    \/ \E notes \in GeneralNotesInputs, saveFails \in BOOLEAN :
           saveGeneralNotesClick(notes, saveFails)

Spec == Init /\ [][Next]_vars

(***************************************************************************)
(* The application with the export button, on files that include one with  *)
(* another column order and no generalNotes column.                        *)
(***************************************************************************)

\* Nine columns, lastName before firstName, no generalNotes.
FileLegacy ==
    Text(<<Line(<<K_id, K_lastName, K_firstName, K_flatNumber, K_phoneNumber,
                  K_dateOfBirth, K_scannedIdPicUrl, K_isBanned, K_notes>>),
           Line(<<V1, <<"D", "o">>, <<"J", "o">>, <<"1">>, <<"5">>, <<"d">>, <<"p">>,
                  <<"0">>, <<>>>>),
           Line(<<V2, <<"P", "o">>, <<"A", "l">>, <<"2">>, <<"6">>, <<"d">>, <<"p">>,
                  <<"1">>, <<"t">>>>)>>)

ExportFiles == <<FileClean, FileMixed, FileShort, FileLegacy>>

ExportInit ==
    /\ db = <<>>
    /\ visitorsList = <<>>
    /\ selectedVisitorId = Null
    /\ localStorage \in InitialStorage
    /\ files = ExportFiles
    /\ lastUsedFilePath = NoPath
    /\ ready = FALSE
    /\ genCount = 0
    /\ messages = <<>>
    /\ uncaught = FALSE
    /\ last = NoOp
    /\ opCount = 0
    /\ codec = CodecIdle
    /\ ipcRequests = <<>>
    /\ ipcReplies = <<>>
    /\ lastExport = NoExport
    /\ searchView = NoSearch

ExportNext ==
    \/ Next
    \/ \E generalNotes \in GeneralNotesInputs : handleExport(generalNotes)
    \/ \E ioFails \in BOOLEAN : updateAndSaveCsvFile(ioFails)
    \/ exportResult

ExportSpec == ExportInit /\ [][ExportNext]_vars

(***************************************************************************)
(* The application with the search box: page loads, searches and clicks on *)
(* a result.                                                               *)
(***************************************************************************)

SearchNext ==
    \/ \E path \in Paths \cup {NoPath} : initializeDb(path)
    \/ \E value \in SearchInputs : handleSearch(value)
    \/ \E i \in 1..Len(visitorsList) : resultClick(i)

SearchSpec == Init /\ [][SearchNext]_vars

(***************************************************************************)
(* The main.js codec on its own: parse a text, write the records back,     *)
(* parse what was written.                                                 *)
(***************************************************************************)

\* Characters of a data line, and the longest line drawn.
CodecAlphabet == {"x", ",", "\"", "\\", " "}
MaxLineLen == 5

CodecHeader == <<"i", "d", ",", "n">>
CodecLastLine == <<"k", ",", "z">>

CodecLines == UNION {[1..n -> CodecAlphabet] : n \in 1..MaxLineLen}
CodecTexts == {Text(<<CodecHeader, line, CodecLastLine>>) : line \in CodecLines}

AppIdle ==
    /\ db = <<>>
    /\ visitorsList = <<>>
    /\ selectedVisitorId = Null
    /\ localStorage = NoItem
    /\ files = InitialFiles
    /\ lastUsedFilePath = NoPath
    /\ ready = FALSE
    /\ genCount = 0
    /\ messages = <<>>
    /\ uncaught = FALSE
    /\ last = NoOp
    /\ opCount = 0
    /\ ipcRequests = <<>>
    /\ ipcReplies = <<>>
    /\ lastExport = NoExport
    /\ searchView = NoSearch

AppVars == <<db, visitorsList, selectedVisitorId, localStorage, files,
             lastUsedFilePath, ready, genCount, messages, uncaught, last, opCount,
             ipcRequests, ipcReplies, lastExport, searchView>>

CodecInit ==
    /\ AppIdle
    /\ \E text \in CodecTexts : codec = [CodecIdle EXCEPT !.pc = "text", !.text = text]

CodecParse ==
    /\ codec.pc = "text"
    /\ codec' = [codec EXCEPT !.pc = "parsed", !.records = parseCsvMain(codec.text)]
    /\ UNCHANGED AppVars

CodecStringify ==
    /\ codec.pc = "parsed"
    /\ codec' = [codec EXCEPT !.pc = "written", !.out = stringifyCsv(codec.records)]
    /\ UNCHANGED AppVars

CodecReparse ==
    /\ codec.pc = "written"
    /\ codec' = [codec EXCEPT !.pc = "done", !.back = parseCsvMain(codec.out)]
    /\ UNCHANGED AppVars

CodecNext == CodecParse \/ CodecStringify \/ CodecReparse

CodecSpec == CodecInit /\ [][CodecNext]_vars

(***************************************************************************)
(* The row gate of the main.js parser: a header, one drawn data line and a *)
(* last line, parsed.                                                      *)
(***************************************************************************)

GateAlphabet == {"x", ",", "\"", " "}
MaxGateLen == 3

\* Headers with the id column first, last, under its legacy name, twice, or absent.
GateHeaders ==
    {Line(<<K_id, <<"n">>>>), Line(<<K_visitorId, <<"n">>>>), Line(<<<<"n">>, K_id>>),
     Line(<<K_visitorId, K_id>>), Line(<<K_id, K_visitorId>>), Line(<<<<"n">>, <<"m">>>>)}

GateLines == UNION {[1..n -> GateAlphabet] : n \in 1..MaxGateLen}

GateInit ==
    /\ AppIdle
    /\ \E header \in GateHeaders, line \in GateLines :
          codec = [CodecIdle EXCEPT !.pc = "text",
                                    !.text = Text(<<header, line, CodecLastLine>>)]

GateNext == CodecParse

GateSpec == GateInit /\ [][GateNext]_vars

\* Records equal field for field, in number and in order.
SameRecords(a, b) ==
    /\ Len(a) = Len(b)
    /\ \A i \in 1..Len(a) : ObjEq(a[i], b[i])


(***************************************************************************)
(* Properties                                                              *)
(***************************************************************************)

Ids(table) == {table[i].id : i \in 1..Len(table)}
Rows(table) == {table[i] : i \in 1..Len(table)}
UniqueIds(table) == \A i, j \in 1..Len(table) : table[i].id = table[j].id => i = j

\* The rows the last import parsed, and those that carry both names.
LastRows == last.rows
Named(v) ==
    /\ ObjGet(v, K_firstName) \notin {Undefined, <<>>}
    /\ ObjGet(v, K_lastName) \notin {Undefined, <<>>}
GivenId(v) == ObjGet(v, K_id) \notin {Undefined, <<>>}
NamedRows(rows) == {i \in 1..Len(rows) : Named(rows[i])}
Committed == last.op = "import" /\ ~last.threw

\* Record d holds the values row v of a CSV file gives it.
HoldsRow(d, v) ==
    /\ d.firstName = ObjGet(v, K_firstName)
    /\ d.lastName = ObjGet(v, K_lastName)
    /\ d.flatNumber = ObjGet(v, K_flatNumber)
    /\ d.phoneNumber = ObjGet(v, K_phoneNumber)
    /\ d.dateOfBirth = ObjGet(v, K_dateOfBirth)
    /\ d.scannedIdPicUrl = ObjGet(v, K_scannedIdPicUrl)
    /\ d.notes = ObjGet(v, K_notes)
    /\ d.isBanned = (IF ObjGet(v, K_isBanned) \in {<<"1">>, <<"t", "r", "u", "e">>}
                     THEN 1 ELSE 0)

\* Row i is the last named row of rows that gives its id.
LastOfItsId(rows, i) ==
    /\ Named(rows[i]) /\ GivenId(rows[i])
    /\ \A j \in NamedRows(rows) :
          ObjGet(rows[j], K_id) = ObjGet(rows[i], K_id) => j <= i

\* Every named row that gives an id is in the table, with the values of the
\* last such row.
RowsUpserted(rows, table) ==
    \A i \in 1..Len(rows) :
        LastOfItsId(rows, i) =>
            /\ \E k \in 1..Len(table) : table[k].id = ObjGet(rows[i], K_id)
            /\ \A k \in 1..Len(table) :
                  table[k].id = ObjGet(rows[i], K_id) => HoldsRow(table[k], rows[i])

\* Records an import of rows adds to a table with the ids `before`.
Added(rows, before) ==
    Cardinality({ObjGet(rows[i], K_id) : i \in {j \in NamedRows(rows) : GivenId(rows[j])}}
                \ before)
    + Cardinality({i \in NamedRows(rows) : ~GivenId(rows[i])})

\* C1: an import whose loop threw leaves the database, the stored snapshot and
\* the in-memory list as they were before the import.
C1_AtomicImport ==
    (last.op = "import" /\ last.threw) =>
        /\ db = last.dbBefore
        /\ localStorage = last.storedBefore
        /\ visitorsList = last.listBefore

\* The loop threw after at least one row had been upserted.
C1_Witness == last.op = "import" /\ last.threw /\ last.count >= 1

\* C2 as claimed: a committed import of the CSV that the import before it
\* committed leaves the database as that first import left it.
C2_ImportIdempotent == last.again => db = last.dbPrior

\* C2 amended: the same, for a CSV whose named rows all give an id.
C2_ImportIdempotentWithIds ==
    (last.again /\ \A i \in NamedRows(LastRows) : GivenId(LastRows[i])) =>
        db = last.dbPrior

C2_Witness ==
    /\ last.again /\ last.count >= 2
    /\ \A i \in NamedRows(LastRows) : GivenId(LastRows[i])

\* C4: no two records of the database, the list or the snapshot share an id; a
\* committed import adds one record per new id and replaces the records whose
\* id a row gives; an import throws only at a failing statement or an unbound
\* parameter, never because an id is already stored.
C4_IdUnique ==
    /\ UniqueIds(db) /\ UniqueIds(visitorsList) /\ UniqueIds(localStorage.rows)
    /\ Committed =>
          /\ Len(db) = Len(last.dbBefore) + Added(LastRows, Ids(last.dbBefore))
          /\ RowsUpserted(LastRows, db)
    /\ (last.op = "import" /\ last.threw) =>
          \E i \in NamedRows(LastRows) :
              i = last.fault \/ BindThrows(RowParams(LastRows[i]))

\* A committed import with a row whose id was stored and an id given twice.
C4_Witness ==
    /\ Committed
    /\ \E i \in NamedRows(LastRows) : ObjGet(LastRows[i], K_id) \in Ids(last.dbBefore)
    /\ \E i, j \in NamedRows(LastRows) :
          i # j /\ GivenId(LastRows[i])
          /\ ObjGet(LastRows[i], K_id) = ObjGet(LastRows[j], K_id)

\* C5: every record of the database and of the in-memory list has a non-empty
\* firstName and a non-empty lastName.
C5_RequiredNames ==
    \A r \in Rows(db) \cup Rows(visitorsList) :
        r.firstName \notin {Undefined, <<>>} /\ r.lastName \notin {Undefined, <<>>}

\* A committed import that skipped a row and stored another.
C5_Witness ==
    /\ Committed /\ last.count >= 1
    /\ \E i \in 1..Len(LastRows) : ~Named(LastRows[i])

\* C6: an import that neither threw nor failed to save reports the number of
\* named rows, holds every named row, and is saved and loaded.
C6_RejectionIsNotFailure ==
    (Committed /\ ~last.saveFailed) =>
        /\ messages = <<Msg("success", "Successfully imported",
                            Cardinality(NamedRows(LastRows)))>>
        /\ RowsUpserted(LastRows, db)
        /\ Len(db) = Len(last.dbBefore) + Added(LastRows, Ids(last.dbBefore))
        /\ localStorage = [has |-> TRUE, rows |-> db]
        /\ visitorsList = db

\* A successful import of a batch with a rejected row and accepted rows.
C6_Witness ==
    /\ Committed /\ ~last.saveFailed
    /\ messages # <<>> /\ messages[1].count >= 1
    /\ \E i \in 1..Len(LastRows) : ~Named(LastRows[i])

\* C7: once the listeners are registered, between handlers, the in-memory
\* list, the database and the stored snapshot hold the same records.
C7_ViewDurableConsistent ==
    ready => Rows(visitorsList) = Rows(db) /\ Rows(localStorage.rows) = Rows(db)

\* C8: when saveDbToLocalStorage fails, the database is as before the
\* operation, and the failure is reported as an error and not thrown further.
C8_PersistenceFailureAborts ==
    last.saveFailed =>
        /\ db = last.dbBefore
        /\ ~uncaught
        /\ messages # <<>>
        /\ \A i \in 1..Len(messages) : messages[i].type = "error"

\* C9: after a committed import, every record the quote-aware parse of the
\* file gives (named, its id given once) is stored with its values.
C9_ImportUsesQuoteAwareCodec ==
    Committed =>
        LET parsed == parseCsvMain(last.csv)
        IN \A i \in 1..Len(parsed) :
              (/\ Named(parsed[i])
               /\ \A j \in 1..Len(parsed) :
                     ObjGet(parsed[j], K_id) = ObjGet(parsed[i], K_id) => j = i)
              => \E d \in Rows(db) :
                    d.id = ObjGet(parsed[i], K_id) /\ HoldsRow(d, parsed[i])

\* C10: after a ban with notes n the selected record reads isBanned = 1 and
\* notes = n; after an unban it reads isBanned = 0 and notes = "". The record
\* is read from the database, and from the list when the update succeeded.
ReadsBack(table, id, isBanned, notes) ==
    /\ \E r \in Rows(table) : r.id = id
    /\ \A r \in Rows(table) : r.id = id => r.isBanned = isBanned /\ r.notes = notes

C10_BanUnbanReadBack ==
    /\ (last.op = "ban" /\ Truthy(last.id)) =>
          /\ ReadsBack(db, last.id, 1, last.notes)
          /\ ~last.saveFailed => ReadsBack(visitorsList, last.id, 1, last.notes)
    /\ (last.op = "unban" /\ Truthy(last.id)) =>
          /\ ReadsBack(db, last.id, 0, <<>>)
          /\ ~last.saveFailed => ReadsBack(visitorsList, last.id, 0, <<>>)

\* An unban of a record that a ban had given notes.
C10_Witness ==
    /\ last.op = "unban" /\ Truthy(last.id)
    /\ ReadsBack(last.dbBefore, last.id, 1, <<"b">>)

\* C3: parsing what stringifyCsv wrote from parsed records gives the records
\* back, field for field, in number and order.
C3_CodecRoundTrip ==
    codec.pc = "done" => SameRecords(codec.back, codec.records)

\* The data rows of a CSV text as the quote-aware scan reads them, those
\* without an id included.
RawRows(text) ==
    LET lines == FilterSeq(NonBlank, SplitLines(text))
        headers == MapSeq(Trim, Split(lines[1], Comma))
    IN IF lines = <<>> THEN <<>>
       ELSE [i \in 1..(Len(lines) - 1) |->
                BuildRow(headers, ScanLine(lines[i + 1], 1, FALSE, 1, <<>>),
                         1, <<>>, FALSE)[1]]

ExportedId == ObjGet(lastExport.record, K_id)
PositionsOf(rows, id) == {i \in 1..Len(rows) : ObjGet(rows[i], K_id) = id}

\* C11: after a successful export the first line of the file is the ten
\* column names in the canonical order.
C11_ExportCanonicalHeader ==
    lastExport.ok =>
        Split(lastExport.after, "\n")[1] =
            Join(<<K_id, K_firstName, K_lastName, K_flatNumber, K_phoneNumber,
                   K_dateOfBirth, K_scannedIdPicUrl, K_isBanned, K_notes,
                   K_generalNotes>>, Comma)

\* C12: after a successful export, the file parses to a record with the
\* exported id that has the generalNotes of the input element and the other
\* fields of the exported record.
C12_ExportPersistsGeneralNotes ==
    lastExport.ok =>
        \E i \in PositionsOf(lastExport.back, ExportedId) :
            \A k \in 1..Len(lastExport.record) :
                ObjGet(lastExport.back[i], lastExport.record[k][1])
                    = lastExport.record[k][2]

C13_WitnessAppend ==
    lastExport.ok /\ lastExport.index = 0 /\ Len(lastExport.visitors) >= 1

\* C14: while a call of handleExport to the main process is waiting, no
\* handler writes the database or the stored snapshot.
C14_NoInterleaving ==
    last.exportPending => db = last.dbPrior /\ localStorage = last.storedBefore

\* C17: after a successful export, the rows of the file other than those with
\* the exported id are the rows that were there, in order, each with the value
\* it had in every column.
C17_ExportKeepsOtherRows ==
    lastExport.ok =>
        LET a == FilterSeq(LAMBDA r : ObjGet(r, K_id) # ExportedId,
                           RawRows(lastExport.before))
            b == FilterSeq(LAMBDA r : ObjGet(r, K_id) # ExportedId,
                           RawRows(lastExport.after))
        IN /\ Len(a) = Len(b)
           /\ \A i \in 1..Len(a) : \A k \in 1..Len(a[i]) :
                 ObjGet(b[i], a[i][k][1]) = a[i][k][2]

\* C18: after a committed import a record whose id was stored has the
\* generalNotes it had, a record whose id was not stored has generalNotes "",
\* and the other columns of the rows that give an id are those of the CSV.
C18_ImportKeepsGeneralNotes ==
    Committed =>
        /\ \A d \in Rows(db) :
              IF d.id \in Ids(last.dbBefore)
              THEN \A b \in Rows(last.dbBefore) :
                      b.id = d.id => d.generalNotes = b.generalNotes
              ELSE d.generalNotes = <<>>
        /\ \A b \in Rows(last.dbBefore) : \E d \in Rows(db) : d.id = b.id
        /\ RowsUpserted(LastRows, db)

\* A committed import that updated a record whose stored generalNotes is not
\* empty from a row whose generalNotes cell holds another text.
C18_Witness ==
    /\ Committed
    /\ \E i \in NamedRows(LastRows) : \E b \in Rows(last.dbBefore) :
          /\ b.id = ObjGet(LastRows[i], K_id)
          /\ b.generalNotes # <<>>
          /\ ObjGet(LastRows[i], K_generalNotes) \notin {<<>>, Undefined, b.generalNotes}

\* C16: every record the quote-aware parse returns has a non-empty id, and
\* the records are the data rows whose id is not empty, in order.
C16_ParseIdGate ==
    codec.pc = "parsed" =>
        /\ \A i \in 1..Len(codec.records) :
              Trim(ObjGet(codec.records[i], K_id)) \notin {<<>>, Undefined}
        /\ codec.records =
              FilterSeq(LAMBDA r : ObjGet(r, K_id) \notin {<<>>, Undefined},
                        RawRows(codec.text))

\* The words of a search term: its longest runs without white space.
Words(term) ==
    {SubSeq(term, p[1], p[2]) :
        p \in {q \in (1..Len(term)) \X (1..Len(term)) :
                  /\ q[1] <= q[2]
                  /\ \A i \in q[1]..q[2] : term[i] # " "
                  /\ q[1] = 1 \/ term[q[1] - 1] = " "
                  /\ q[2] = Len(term) \/ term[q[2] + 1] = " "}}

\* Text t occurs in text s.
Occurs(t, s) ==
    \E k \in 0..(Len(s) - Len(t)) : \A j \in 1..Len(t) : s[k + j] = t[j]

\* Every word of the term occurs in the lowercased firstName or lastName.
WordsMatch(v, term) ==
    \A w \in Words(term) :
        Occurs(w, toLowerCase(v.firstName)) \/ Occurs(w, toLowerCase(v.lastName))

\* Positions of the list whose lowercased "firstName lastName" is the term.
NamedExactly(term) ==
    {i \in 1..Len(visitorsList) :
        toLowerCase(visitorsList[i].firstName) \o <<" ">>
            \o toLowerCase(visitorsList[i].lastName) = term}

\* The ids of the list's records that match the term, in list order.
RECURSIVE MatchingIds(_, _)
MatchingIds(list, term) ==
    IF list = <<>> THEN <<>>
    ELSE (IF WordsMatch(Head(list), term) THEN <<Head(list).id>> ELSE <<>>)
         \o MatchingIds(Tail(list), term)

Searched == last.op = "search" /\ Trim(toLowerCase(last.notes)) # <<>>

\* Without an exact match the result list is shown and holds the matching
\* records in list order; no profile is shown.
ListShown(term) ==
    NamedExactly(term) = {} =>
        /\ searchView.shown
        /\ searchView.results = MatchingIds(visitorsList, term)
        /\ searchView.profile = Null

C15_WitnessList ==
    /\ Searched /\ searchView.shown
    /\ Len(searchView.results) >= 2 /\ Len(searchView.results) < Len(visitorsList)

=============================================================================
